---- MODULE Spec2Model ----
(***************************************************************************)
(* Model of crates/rustc_codegen_nvvm/src/nvvm.rs: the final codegen step  *)
(* that merges the per-crate bitcode modules, internalizes and DCEs the    *)
(* merged module and feeds it to libnvvm.                                  *)
(***************************************************************************)
EXTENDS Integers, Sequences, FiniteSets, TLC

VARIABLES
    module,      \* the LLVM module being rewritten (NoModule before it exists)
    history,     \* the module as it was before each internalize_pass
    pc,          \* position inside codegen_bitcode_modules
    version,     \* (major, minor) reported by nvvm::ir_version()
    modules,     \* the `modules: Vec<Vec<u8>>` argument
    next_module, \* index of the next buffer merge_llvm_modules will parse
    prog,        \* the modules added to the NvvmProgram handle, in order
    progs,       \* number of NvvmProgram handles created
    trace,       \* the steps of codegen_bitcode_modules executed so far
    fs,          \* what find_libdevice saw on the filesystem
    libdevice,   \* result of find_libdevice()
    outcome      \* how the invocation ended

vars == <<module, history, pc, version, modules, next_module, prog, progs,
          trace, fs, libdevice, outcome>>

-----------------------------------------------------------------------------
(* Bounds *)

MaxPasses == 2
MaxUnits == 2
MaxDirEntries == 2
MaxMajor == 2
MaxMinor == 7

-----------------------------------------------------------------------------
(* LLVM values: functions and globals of a module *)

None == "None"
NoneOpt == [some |-> FALSE]
Some(x) == [some |-> TRUE, val |-> x]

NoModule == [name |-> "", vals |-> <<>>, annotations |-> {}, used |-> {}]
NoVersion == <<>>
NoFs == [cuda_root |-> FALSE, read_dir |-> NoneOpt]
Running == [kind |-> "running"]

ExternalLinkage == "ExternalLinkage"
InternalLinkage == "InternalLinkage"
WeakAnyLinkage == "WeakAnyLinkage"
ExternalWeakLinkage == "ExternalWeakLinkage"
VisDefault == "Default"
VisHidden == "Hidden"

\* linkages LLVM accepts on a declaration / on a definition
DeclLinkages == {ExternalLinkage, ExternalWeakLinkage}
DefLinkages == {ExternalLinkage, InternalLinkage, WeakAnyLinkage}
Visibilities == {VisDefault, VisHidden}

Value(kind, decl, linkage, visibility, refs) ==
    [kind |-> kind, decl |-> decl, linkage |-> linkage,
     visibility |-> visibility, refs |-> refs]

\* LLVMIsDeclaration(v) == True
LLVMIsDeclaration(v) == v.decl

LLVMRustSetLinkage(v, linkage) == [v EXCEPT !.linkage = linkage]

LLVMRustSetVisibility(v, visibility) == [v EXCEPT !.visibility = visibility]

\* FunctionIter: the functions of the module
FunctionIter(m) == {n \in DOMAIN m.vals : m.vals[n].kind = "func"}

\* GlobalIter: the global variables of the module
GlobalIter(m) == {n \in DOMAIN m.vals : m.vals[n].kind = "global"}

-----------------------------------------------------------------------------
(* internalize_pass *)

\* operands.get(1): the second operand of a metadata node, None when there is none
SecondOperand(mdnode) == IF Len(mdnode) >= 2 THEN mdnode[2] ELSE None

\* the values of all the declared kernels: operands[0] of every operand of
\* nvvm.annotations whose operands.get(1) is the MDString "kernel"
Kernels(m) == {mdnode[1] : mdnode \in {x \in m.annotations : SecondOperand(x) = "kernel"}}

\* operands[0] of every operand of cg_nvvm_used
UsedFuncs(m) == {mdnode[1] : mdnode \in m.used}

\* the kernel exemption dropped: if !is_decl { internal, default }
InternalizeFuncNoKernels(func, is_kernel) ==
    IF ~func.decl
    THEN [func EXCEPT !.linkage = "InternalLinkage", !.visibility = "Default"]
    ELSE func

\* if !is_decl && !is_kernel { internal, default }
InternalizeFunc(func, is_kernel) ==
    IF ~LLVMIsDeclaration(func) /\ ~is_kernel
    THEN LLVMRustSetVisibility(LLVMRustSetLinkage(func, InternalLinkage), VisDefault)
    ELSE func

\* if is_used { external, default }
RetainFunc(func, is_used) ==
    IF is_used
    THEN LLVMRustSetVisibility(LLVMRustSetLinkage(func, ExternalLinkage), VisDefault)
    ELSE func

\* the two rules in the other order: the retained override first, then the
\* generic rule
VisitFuncRetainFirst(func, is_kernel, is_used) ==
    InternalizeFunc(RetainFunc(func, is_used), is_kernel)

\* the retained override only for a function the codegen left internal, the
\* generic rule otherwise
VisitFuncRetainIfInternal(func, is_kernel, is_used) ==
    IF is_used /\ func.linkage = InternalLinkage
    THEN RetainFunc(func, is_used)
    ELSE InternalizeFunc(func, is_kernel)

\* the body of the loop over FunctionIter
VisitFunc(func, is_kernel, is_used) ==
    RetainFunc(InternalizeFunc(func, is_kernel), is_used)

\* the visibility reset forgotten: only the linkage is set
VisitGlobalLinkageOnly(global) ==
    IF ~LLVMIsDeclaration(global)
    THEN LLVMRustSetLinkage(global, InternalLinkage)
    ELSE global

\* the body of the loop over GlobalIter
VisitGlobal(global) ==
    IF ~LLVMIsDeclaration(global)
    THEN LLVMRustSetVisibility(LLVMRustSetLinkage(global, InternalLinkage), VisDefault)
    ELSE global

\* each loop iteration touches only the value it visits, so the two loops are
\* one pointwise rewrite of the module's values
internalize_pass(m) ==
    [m EXCEPT !.vals =
        [n \in DOMAIN m.vals |->
            IF n \in FunctionIter(m)
            THEN VisitFunc(m.vals[n], n \in Kernels(m), n \in UsedFuncs(m))
            ELSE VisitGlobal(m.vals[n])]]

-----------------------------------------------------------------------------
(* internalize_pass on its own: every module over two functions and one    *)
(* global, with every combination of declaration flag, linkage,            *)
(* visibility, nvvm.annotations operands and cg_nvvm_used operands         *)

PassFuncs == {"kernel_main", "helper"}
PassGlobals == {"table"}

ValueSpace(kind) ==
    {Value(kind, TRUE, l, v, {}) : l \in DeclLinkages, v \in Visibilities}
    \cup {Value(kind, FALSE, l, v, {}) : l \in DefLinkages, v \in Visibilities}

\* operands of nvvm.annotations: (value, marker, i32) nodes and a short node
AnnotationNodes ==
    {<<"kernel_main", "kernel", 1>>, <<"helper", "kernel", 1>>,
     <<"helper", "maxntidx", 64>>, <<"table">>}

\* operands of cg_nvvm_used: one-operand nodes
UsedNodes == {<<n>> : n \in PassFuncs \cup PassGlobals}

PassModules ==
    {[name |-> "merged_modules",
      vals |-> [n \in PassFuncs \cup PassGlobals |->
                    IF n \in PassFuncs THEN fv[n] ELSE gv[n]],
      annotations |-> a, used |-> u] :
        fv \in [PassFuncs -> ValueSpace("func")],
        gv \in [PassGlobals -> ValueSpace("global")],
        a \in SUBSET AnnotationNodes,
        u \in SUBSET UsedNodes}

InitInternalize ==
    /\ module \in PassModules
    /\ history = <<>>
    /\ pc = "pass"
    /\ version = NoVersion
    /\ modules = <<>>
    /\ next_module = 1
    /\ prog = <<>>
    /\ progs = 0
    /\ trace = <<>>
    /\ fs = NoFs
    /\ libdevice = NoneOpt
    /\ outcome = Running

\* one application of internalize_pass to the module
ApplyInternalize ==
    /\ pc = "pass"
    /\ Len(history) < MaxPasses
    /\ history' = Append(history, module)
    /\ module' = internalize_pass(module)
    /\ UNCHANGED <<pc, version, modules, next_module, prog, progs, trace, fs,
                   libdevice, outcome>>

NextInternalize == ApplyInternalize

SpecInternalize == InitInternalize /\ [][NextInternalize]_vars

-----------------------------------------------------------------------------
(* merge_llvm_modules *)

\* crate::create_module(llcx, "merged_modules")
create_module(name) == [name |-> name, vals |-> <<>>, annotations |-> {}, used |-> {}]

\* a Vec<u8> that is bitcode of a module, and one that is not
Bitcode(unit) == [bitcode |-> TRUE, unit |-> unit]
Garbage == [bitcode |-> FALSE, unit |-> NoModule]

\* LLVMRustParseBitcodeForLTO: None for bytes that are not bitcode
LLVMRustParseBitcodeForLTO(buf) == IF buf.bitcode THEN Some(buf.unit) ELSE NoneOpt

IsLocal(v) == ~v.decl /\ v.linkage = InternalLinkage
IsStrong(v) == ~v.decl /\ v.linkage = ExternalLinkage

RECURSIVE FreshName(_, _, _)
\* the name LLVM gives a local symbol whose name is taken: name.1, name.2, ...
FreshName(n, taken, k) ==
    LET c == n \o "." \o ToString(k)
    IN IF c \in taken THEN FreshName(n, taken, k + 1) ELSE c

\* a module with its values renamed by the map r (names outside r are kept)
Rename(m, r) ==
    LET to(n) == IF n \in DOMAIN r THEN r[n] ELSE n
        names == {to(n) : n \in DOMAIN m.vals}
        from(x) == CHOOSE n \in DOMAIN m.vals : to(n) = x
    IN [m EXCEPT
            !.vals = [x \in names |->
                        [m.vals[from(x)] EXCEPT
                            !.refs = {to(y) : y \in m.vals[from(x)].refs}]],
            !.annotations = {[i \in DOMAIN nd |-> IF i = 1 THEN to(nd[1]) ELSE nd[i]] :
                                nd \in m.annotations},
            !.used = {<<to(nd[1])>> : nd \in m.used}]

\* two definitions of one external symbol that the linker cannot choose between
MultiplyDefined(dst, src) ==
    \E n \in DOMAIN dst.vals \cap DOMAIN src.vals :
        IsStrong(dst.vals[n]) /\ IsStrong(src.vals[n])

\* the value the linker keeps for a name both modules have as a non-local symbol
Resolve(d, s) ==
    IF s.decl THEN d
    ELSE IF d.decl THEN s
    ELSE IF IsStrong(s) /\ ~IsStrong(d) THEN s
    ELSE d

\* the linker moves the values and leaves the source's named metadata behind
LinkWithoutNamedMetadata(dst, src) ==
    IF MultiplyDefined(dst, src)
    THEN [err |-> TRUE, module |-> dst]
    ELSE
        LET both == DOMAIN dst.vals \cap DOMAIN src.vals
            taken == DOMAIN dst.vals \cup DOMAIN src.vals
            srcLocal == {n \in both : IsLocal(src.vals[n])}
            dstLocal == {n \in both : IsLocal(dst.vals[n]) /\ ~IsLocal(src.vals[n])}
            s == Rename(src, [n \in srcLocal |-> FreshName(n, taken, 1)])
            d == Rename(dst, [n \in dstLocal |-> FreshName(n, taken, 1)])
            names == DOMAIN d.vals \cup DOMAIN s.vals
        IN [err |-> FALSE,
            module |->
                [name |-> dst.name,
                 vals |-> [n \in names |->
                            IF n \notin DOMAIN s.vals THEN d.vals[n]
                            ELSE IF n \notin DOMAIN d.vals THEN s.vals[n]
                            ELSE Resolve(d.vals[n], s.vals[n])],
                 annotations |-> d.annotations,
                 used |-> d.used]]

\* LLVMLinkModules2(dst, src): [err, module]. A local symbol keeps its own
\* identity and is renamed when its name is taken; a multiply defined symbol
\* is an error that leaves dst as it was.
LLVMLinkModules2(dst, src) ==
    IF MultiplyDefined(dst, src)
    THEN [err |-> TRUE, module |-> dst]
    ELSE
        LET both == DOMAIN dst.vals \cap DOMAIN src.vals
            taken == DOMAIN dst.vals \cup DOMAIN src.vals
            srcLocal == {n \in both : IsLocal(src.vals[n])}
            dstLocal == {n \in both : IsLocal(dst.vals[n]) /\ ~IsLocal(src.vals[n])}
            s == Rename(src, [n \in srcLocal |-> FreshName(n, taken, 1)])
            d == Rename(dst, [n \in dstLocal |-> FreshName(n, taken, 1)])
            names == DOMAIN d.vals \cup DOMAIN s.vals
        IN [err |-> FALSE,
            module |->
                [name |-> dst.name,
                 vals |-> [n \in names |->
                            IF n \notin DOMAIN s.vals THEN d.vals[n]
                            ELSE IF n \notin DOMAIN d.vals THEN s.vals[n]
                            ELSE Resolve(d.vals[n], s.vals[n])],
                 annotations |-> d.annotations \cup s.annotations,
                 used |-> d.used \cup s.used]]

-----------------------------------------------------------------------------
(* dce_pass *)

RECURSIVE Reach(_, _)
\* the values reachable from `alive` through references
Reach(m, alive) ==
    LET more == alive \cup UNION {m.vals[n].refs \cap DOMAIN m.vals : n \in alive}
    IN IF more = alive THEN alive ELSE Reach(m, more)

\* the pass keeps only what an ExternalLinkage definition reaches
DceRootsExternalOnly(m) ==
    LET roots == {n \in DOMAIN m.vals :
                    ~m.vals[n].decl /\ m.vals[n].linkage = ExternalLinkage}
        alive == Reach(m, roots)
        op(n) == IF n \in alive THEN n ELSE None
    IN [m EXCEPT
            !.vals = [n \in alive |-> m.vals[n]],
            !.annotations = {[i \in DOMAIN nd |-> IF i = 1 THEN op(nd[1]) ELSE nd[i]] :
                                nd \in m.annotations},
            !.used = {<<op(nd[1])>> : nd \in m.used}]

\* the pass deletes, in one sweep, the discardable values nothing else in the
\* module refers to
DceSingleSweep(m) ==
    LET roots == {n \in DOMAIN m.vals :
                    ~m.vals[n].decl /\ m.vals[n].linkage # InternalLinkage}
        alive == roots \cup {n \in DOMAIN m.vals :
                                \E o \in DOMAIN m.vals \ {n} : n \in m.vals[o].refs}
        op(n) == IF n \in alive THEN n ELSE None
    IN [m EXCEPT
            !.vals = [n \in alive |-> m.vals[n]],
            !.annotations = {[i \in DOMAIN nd |-> IF i = 1 THEN op(nd[1]) ELSE nd[i]] :
                                nd \in m.annotations},
            !.used = {<<op(nd[1])>> : nd \in m.used}]

\* LLVMAddGlobalDCEPass + LLVMRunPassManager: the roots are the definitions
\* that are not discardable when unused; every value no root reaches is
\* deleted, and a metadata operand that named it becomes null
dce_pass(m) ==
    LET roots == {n \in DOMAIN m.vals :
                    ~m.vals[n].decl /\ m.vals[n].linkage # InternalLinkage}
        alive == Reach(m, roots)
        op(n) == IF n \in alive THEN n ELSE None
    IN [m EXCEPT
            !.vals = [n \in alive |-> m.vals[n]],
            !.annotations = {[i \in DOMAIN nd |-> IF i = 1 THEN op(nd[1]) ELSE nd[i]] :
                                nd \in m.annotations},
            !.used = {<<op(nd[1])>> : nd \in m.used}]

\* the values dce_pass is run on: declarations, and definitions with the
\* values they refer to
DceValueSpace(kind) ==
    {Value(kind, TRUE, ExternalLinkage, VisDefault, {})}
    \cup {Value(kind, FALSE, l, VisDefault, r) :
            l \in DefLinkages, r \in SUBSET (PassFuncs \cup PassGlobals)}

DceModules ==
    {[name |-> "merged_modules",
      vals |-> [n \in PassFuncs \cup PassGlobals |->
                    IF n \in PassFuncs THEN fv[n] ELSE gv[n]],
      annotations |-> a, used |-> u] :
        fv \in [PassFuncs -> DceValueSpace("func")],
        gv \in [PassGlobals -> DceValueSpace("global")],
        a \in {{}, {<<"kernel_main", "kernel", 1>>}},
        u \in {{}, {<<"helper">>}}}

InitDce ==
    /\ module \in DceModules
    /\ history = <<>>
    /\ pc = "dce"
    /\ version = NoVersion
    /\ modules = <<>>
    /\ next_module = 1
    /\ prog = <<>>
    /\ progs = 0
    /\ trace = <<>>
    /\ fs = NoFs
    /\ libdevice = NoneOpt
    /\ outcome = Running

\* one application of dce_pass to the module
ApplyDce ==
    /\ pc = "dce"
    /\ Len(history) < MaxPasses
    /\ history' = Append(history, module)
    /\ module' = dce_pass(module)
    /\ UNCHANGED <<pc, version, modules, next_module, prog, progs, trace, fs,
                   libdevice, outcome>>

NextDce == ApplyDce

SpecDce == InitDce /\ [][NextDce]_vars

-----------------------------------------------------------------------------
(* find_libdevice *)

\* an entry of the directory listing: ok is FALSE for an entry that failed to
\* list, readable is FALSE for a file fs::read fails on
DirEntry(ok, name, ext, readable) ==
    [ok |-> ok, name |-> name, ext |-> ext, readable |-> readable]

\* fs::read_dir(..).ok()?.filter_map(Result::ok).find(ext == "bc")?.path(),
\* then fs::read(..).ok()
find_libdevice(f) ==
    IF ~f.cuda_root THEN NoneOpt
    ELSE IF ~f.read_dir.some THEN NoneOpt
    ELSE
        LET entries == SelectSeq(f.read_dir.val, LAMBDA e : e.ok)
            bc == SelectSeq(entries, LAMBDA e : e.ext = "bc")
        IN IF bc = <<>> THEN NoneOpt
           ELSE IF Head(bc).readable
                THEN Some(Head(bc).name \o "." \o Head(bc).ext)
                ELSE NoneOpt

-----------------------------------------------------------------------------
(* codegen_bitcode_modules *)

\* the per-crate modules the buffers hold
UnitA ==
    [name |-> "a",
     vals |-> [n \in {"kernel_main", "helper"} |->
                IF n = "kernel_main"
                THEN Value("func", FALSE, ExternalLinkage, VisDefault, {"helper"})
                ELSE Value("func", TRUE, ExternalLinkage, VisDefault, {})],
     annotations |-> {<<"kernel_main", "kernel", 1>>},
     used |-> {}]

UnitB ==
    [name |-> "b",
     vals |-> [n \in {"helper", "unused", "table"} |->
                IF n = "helper"
                THEN Value("func", FALSE, ExternalLinkage, VisHidden, {"table"})
                ELSE IF n = "unused"
                THEN Value("func", FALSE, InternalLinkage, VisDefault, {})
                ELSE Value("global", FALSE, InternalLinkage, VisDefault, {})],
     annotations |-> {},
     used |-> {}]

UnitC ==
    [name |-> "c",
     vals |-> [n \in {"kernel_main", "unused"} |->
                IF n = "kernel_main"
                THEN Value("func", FALSE, ExternalLinkage, VisDefault, {})
                ELSE Value("func", FALSE, ExternalLinkage, VisDefault, {})],
     annotations |-> {<<"kernel_main", "kernel", 1>>, <<"kernel_main", "maxntidx", 64>>},
     used |-> {<<"unused">>}]

\* helper and a function nothing uses, both with internal linkage
UnitD ==
    [name |-> "d",
     vals |-> [n \in {"helper", "unused"} |->
                Value("func", FALSE, InternalLinkage, VisDefault, {})],
     annotations |-> {},
     used |-> {}]

\* a second kernel, with a launch-bound annotation next to the kernel marker
UnitE ==
    [name |-> "e",
     vals |-> [n \in {"helper", "table"} |->
                IF n = "helper"
                THEN Value("func", FALSE, ExternalLinkage, VisDefault, {"table"})
                ELSE Value("global", FALSE, WeakAnyLinkage, VisDefault, {})],
     annotations |-> {<<"helper", "kernel", 1>>, <<"table", "managed", 1>>},
     used |-> {}]

Units == {UnitA, UnitB, UnitC, UnitD, UnitE}

Buffers == {Garbage} \cup {Bitcode(u) : u \in Units}

SeqsUpTo(S, n) == UNION {[1..k -> S] : k \in 0..n}

\* the (major, minor) pairs nvvm::ir_version() may report
Versions == (0..MaxMajor) \X (0..MaxMinor)

DirEntries ==
    {DirEntry(FALSE, "", "", FALSE),
     DirEntry(TRUE, "libdevice.10", "bc", TRUE),
     DirEntry(TRUE, "libdevice.10", "bc", FALSE),
     DirEntry(TRUE, "README", "txt", TRUE)}

\* the filesystem states find_libdevice may meet
FsSpace ==
    {NoFs, [cuda_root |-> TRUE, read_dir |-> NoneOpt]}
    \cup {[cuda_root |-> TRUE, read_dir |-> Some(es)] : es \in SeqsUpTo(DirEntries, MaxDirEntries)}

\* what prog.compiler_log() may return: Err, Ok(None), Ok(Some(log))
CompilerLogs == {[ok |-> FALSE, log |-> NoneOpt], [ok |-> TRUE, log |-> NoneOpt],
                 [ok |-> TRUE, log |-> Some("")], [ok |-> TRUE, log |-> Some("verifier log")]}

LIBINTRINSICS == "libintrinsics.bc"
Opts == <<"-arch=compute_61">>
Ptx == "ptx"

Step(op, ok) == [op |-> op, ok |-> ok]

\* the ways the invocation ends
Ok(res) == [kind |-> "Ok", val |-> res]
Err(variant) == [kind |-> "Err", val |-> variant]
Fatal(msg) == [kind |-> "fatal", val |-> msg]
Panic(msg) == [kind |-> "panic", val |-> msg]

Init ==
    /\ module = NoModule
    /\ history = <<>>
    /\ pc = "ir_version"
    /\ version = NoVersion
    /\ modules \in SeqsUpTo(Buffers, MaxUnits)
    /\ next_module = 1
    /\ prog = <<>>
    /\ progs = 0
    /\ trace = <<>>
    /\ fs = NoFs
    /\ libdevice = NoneOpt
    /\ outcome = Running

\* the check with && for ||
VersionTooOldBoth(major, minor) == minor < 6 /\ major < 1

\* if minor < 6 || major < 1
VersionTooOld(major, minor) == minor < 6 \/ major < 1

\* lines 61-65: nvvm::ir_version() and the version check
CheckVersion ==
    /\ pc = "ir_version"
    /\ \E v \in Versions :
        /\ version' = v
        /\ IF VersionTooOld(v[1], v[2])
           THEN /\ outcome' = Fatal("rustc_codegen_nvvm requires at least libnvvm 1.6 (CUDA 11.2)")
                /\ pc' = "done"
           ELSE /\ outcome' = outcome
                /\ pc' = "NvvmProgram::new"
        /\ trace' = Append(trace, Step("version_check", ~VersionTooOld(v[1], v[2])))
    /\ UNCHANGED <<module, history, modules, next_module, prog, progs, fs, libdevice>>

\* line 68: let prog = NvvmProgram::new()?
NewProgram ==
    /\ pc = "NvvmProgram::new"
    /\ \E ok \in BOOLEAN :
        /\ trace' = Append(trace, Step("NvvmProgram::new", ok))
        /\ IF ok
           THEN /\ progs' = progs + 1
                /\ pc' = "merge_llvm_modules"
                /\ outcome' = outcome
           ELSE /\ progs' = progs
                /\ pc' = "done"
                /\ outcome' = Err("Nvvm")
    /\ UNCHANGED <<module, history, version, modules, next_module, prog, fs, libdevice>>

\* line 146: the accumulator module is created
MergeCreate ==
    /\ pc = "merge_llvm_modules"
    /\ module' = create_module("merged_modules")
    /\ next_module' = 1
    /\ pc' = IF modules = <<>> THEN "internalize_pass" ELSE "merge_loop"
    /\ trace' = Append(trace, Step("create_module", TRUE))
    /\ UNCHANGED <<history, version, modules, prog, progs, fs, libdevice, outcome>>

\* a buffer that does not parse is skipped instead of .expect()
MergeNextSkipsInvalid ==
    /\ pc = "merge_loop"
    /\ LET tmp == LLVMRustParseBitcodeForLTO(modules[next_module])
       IN /\ module' = IF tmp.some THEN LLVMLinkModules2(module, tmp.val).module ELSE module
          /\ trace' = IF tmp.some
                      THEN trace \o <<Step("parse", TRUE),
                                      Step("link", ~LLVMLinkModules2(module, tmp.val).err)>>
                      ELSE Append(trace, Step("parse", FALSE))
    /\ next_module' = next_module + 1
    /\ pc' = IF next_module = Len(modules) THEN "internalize_pass" ELSE "merge_loop"
    /\ UNCHANGED <<history, version, modules, prog, progs, fs, libdevice, outcome>>

\* lines 147-158: one iteration of the loop over the buffers; the value
\* LLVMLinkModules2 returns is dropped
MergeNext ==
    /\ pc = "merge_loop"
    /\ LET tmp == LLVMRustParseBitcodeForLTO(modules[next_module])
       IN IF ~tmp.some
          THEN /\ outcome' = Panic("Failed to parse module bitcode")
               /\ pc' = "done"
               /\ trace' = Append(trace, Step("parse", FALSE))
               /\ UNCHANGED <<module, next_module>>
          ELSE /\ module' = LLVMLinkModules2(module, tmp.val).module
               /\ next_module' = next_module + 1
               /\ pc' = IF next_module = Len(modules) THEN "internalize_pass" ELSE "merge_loop"
               /\ trace' = trace \o <<Step("parse", TRUE),
                                      Step("link", ~LLVMLinkModules2(module, tmp.val).err)>>
               /\ outcome' = outcome
    /\ UNCHANGED <<history, version, modules, prog, progs, fs, libdevice>>

\* dce_pass left out: the internalized module goes straight to the program
InternalizeSkipsDce ==
    /\ pc = "internalize_pass"
    /\ history' = Append(history, module)
    /\ module' = internalize_pass(module)
    /\ pc' = "add_module"
    /\ trace' = Append(trace, Step("internalize_pass", TRUE))
    /\ UNCHANGED <<version, modules, next_module, prog, progs, fs, libdevice, outcome>>

\* line 72
Internalize ==
    /\ pc = "internalize_pass"
    /\ history' = Append(history, module)
    /\ module' = internalize_pass(module)
    /\ pc' = "dce_pass"
    /\ trace' = Append(trace, Step("internalize_pass", TRUE))
    /\ UNCHANGED <<version, modules, next_module, prog, progs, fs, libdevice, outcome>>

\* the pass manager is built but never run on the module
DceKeepsModule ==
    /\ pc = "dce_pass"
    /\ pc' = "add_module"
    /\ trace' = Append(trace, Step("dce_pass", TRUE))
    /\ UNCHANGED <<module, history, version, modules, next_module, prog, progs, fs,
                   libdevice, outcome>>

\* line 73
Dce ==
    /\ pc = "dce_pass"
    /\ module' = dce_pass(module)
    /\ pc' = "add_module"
    /\ trace' = Append(trace, Step("dce_pass", TRUE))
    /\ UNCHANGED <<history, version, modules, next_module, prog, progs, fs, libdevice,
                   outcome>>

\* .unwrap() for ?: a rejected module panics
AddToProgramUnwrap(op, name, data, lazy, next) ==
    \E ok \in BOOLEAN :
        /\ trace' = Append(trace, Step(op, ok))
        /\ IF ok
           THEN /\ prog' = Append(prog, [name |-> name, data |-> data, lazy |-> lazy])
                /\ pc' = next
                /\ outcome' = outcome
           ELSE /\ prog' = prog
                /\ pc' = "done"
                /\ outcome' = Panic(<<"called Result::unwrap() on an Err value">>)

\* a `prog.add_..(..)?` call: on Ok the module is part of the program and the
\* function goes on at `next`; on Err the function returns CodegenErr::Nvvm
AddToProgram(op, name, data, lazy, next) ==
    \E ok \in BOOLEAN :
        /\ trace' = Append(trace, Step(op, ok))
        /\ IF ok
           THEN /\ prog' = Append(prog, [name |-> name, data |-> data, lazy |-> lazy])
                /\ pc' = next
                /\ outcome' = outcome
           ELSE /\ prog' = prog
                /\ pc' = "done"
                /\ outcome' = Err("Nvvm")

\* lines 75-77: prog.add_module(buf.data(), "merged".to_string())?
AddModule ==
    /\ pc = "add_module"
    /\ AddToProgram("add_module", "merged", module, FALSE, "find_libdevice")
    /\ UNCHANGED <<module, history, version, modules, next_module, progs, fs, libdevice>>

\* a missing libdevice reported as an io::Error through the returned Result
FindLibdeviceReturnsIo ==
    /\ pc = "find_libdevice"
    /\ \E f \in FsSpace :
        /\ fs' = f
        /\ libdevice' = find_libdevice(f)
        /\ trace' = Append(trace, Step("find_libdevice", find_libdevice(f).some))
        /\ IF find_libdevice(f).some
           THEN /\ pc' = "add_lazy_module(libdevice)"
                /\ outcome' = outcome
           ELSE /\ pc' = "done"
                /\ outcome' = Err("Io")
    /\ UNCHANGED <<module, history, version, modules, next_module, prog, progs>>

\* fs::read's io::Error propagated through From<io::Error> instead of .ok()
FindLibdeviceReadErrIsIo ==
    /\ pc = "find_libdevice"
    /\ \E f \in FsSpace :
        /\ fs' = f
        /\ libdevice' = find_libdevice(f)
        /\ trace' = Append(trace, Step("find_libdevice", find_libdevice(f).some))
        /\ IF find_libdevice(f).some
           THEN /\ pc' = "add_lazy_module(libdevice)"
                /\ outcome' = outcome
           ELSE /\ pc' = "done"
                /\ outcome' =
                    IF /\ f.cuda_root
                       /\ f.read_dir.some
                       /\ \E i \in DOMAIN f.read_dir.val :
                            f.read_dir.val[i].ok /\ f.read_dir.val[i].ext = "bc"
                    THEN Err("Io")
                    ELSE Fatal("Could not find the libdevice library (libdevice.10.bc) in the CUDA directory")
    /\ UNCHANGED <<module, history, version, modules, next_module, prog, progs>>

\* lines 79-86: find_libdevice(), fatal when it returns None
FindLibdevice ==
    /\ pc = "find_libdevice"
    /\ \E f \in FsSpace :
        /\ fs' = f
        /\ libdevice' = find_libdevice(f)
        /\ trace' = Append(trace, Step("find_libdevice", find_libdevice(f).some))
        /\ IF find_libdevice(f).some
           THEN /\ pc' = "add_lazy_module(libdevice)"
                /\ outcome' = outcome
           ELSE /\ pc' = "done"
                /\ outcome' = Fatal("Could not find the libdevice library (libdevice.10.bc) in the CUDA directory")
    /\ UNCHANGED <<module, history, version, modules, next_module, prog, progs>>

\* line 88: prog.add_lazy_module(&libdevice, "libdevice".to_string())?
AddLibdevice ==
    /\ pc = "add_lazy_module(libdevice)"
    /\ AddToProgram("add_lazy_module(libdevice)", "libdevice", libdevice.val, TRUE,
                    "add_lazy_module(libintrinsics)")
    /\ UNCHANGED <<module, history, version, modules, next_module, progs, fs, libdevice>>

\* line 89: prog.add_lazy_module(LIBINTRINSICS, "libintrinsics".to_string())?
AddLibintrinsics ==
    /\ pc = "add_lazy_module(libintrinsics)"
    /\ AddToProgram("add_lazy_module(libintrinsics)", "libintrinsics", LIBINTRINSICS, TRUE,
                    "verify")
    /\ UNCHANGED <<module, history, version, modules, next_module, progs, fs, libdevice>>

\* verification_res never looked at: compile follows verify either way
VerifyUnchecked ==
    /\ pc = "verify"
    /\ \E ok \in BOOLEAN : trace' = Append(trace, Step("verify", ok))
    /\ pc' = "compile"
    /\ UNCHANGED <<module, history, version, modules, next_module, prog, progs, fs,
                   libdevice, outcome>>

\* line 97: let verification_res = prog.verify()
Verify ==
    /\ pc = "verify"
    /\ \E ok \in BOOLEAN :
        /\ trace' = Append(trace, Step("verify", ok))
        /\ pc' = IF ok THEN "compile" ELSE "compiler_log"
    /\ UNCHANGED <<module, history, version, modules, next_module, prog, progs, fs,
                   libdevice, outcome>>

\* the panic of lines 99-104 for one return value of prog.compiler_log():
\* .unwrap() panics on Err, .unwrap_or_default() turns None into ""
VerifierPanic(res) ==
    IF ~res.ok
    THEN Panic(<<"called Result::unwrap() on an Err value">>)
    ELSE Panic(<<"Malformed NVVM IR program rejected by libnvvm, dumping verifier log:",
                 IF res.log.some THEN res.log.val ELSE "",
                 "If you plan to submit a bug report please re-run the codegen">>)

\* lines 98-105: verification failed
CompilerLog ==
    /\ pc = "compiler_log"
    /\ \E res \in CompilerLogs :
        /\ trace' = Append(trace, [op |-> "compiler_log", ok |-> res.ok, log |-> res.log])
        /\ outcome' = VerifierPanic(res)
    /\ pc' = "done"
    /\ UNCHANGED <<module, history, version, modules, next_module, prog, progs, fs,
                   libdevice>>

\* the compile error propagated with ? instead of the panic
CompileReturnsErr ==
    /\ pc = "compile"
    /\ \E ok \in BOOLEAN :
        /\ trace' = Append(trace, [op |-> "compile", ok |-> ok, opts |-> Opts])
        /\ outcome' = IF ok THEN Ok(Ptx) ELSE Err("Nvvm")
    /\ pc' = "done"
    /\ UNCHANGED <<module, history, version, modules, next_module, prog, progs, fs,
                   libdevice>>

\* lines 107-115: prog.compile(opts), Ok(res) or the panic
Compile ==
    /\ pc = "compile"
    /\ \E ok \in BOOLEAN :
        /\ trace' = Append(trace, [op |-> "compile", ok |-> ok, opts |-> Opts])
        /\ outcome' = IF ok THEN Ok(Ptx)
                      ELSE Panic(<<"libnvvm returned an error that was not previously caught by the verifier">>)
    /\ pc' = "done"
    /\ UNCHANGED <<module, history, version, modules, next_module, prog, progs, fs,
                   libdevice>>

Next ==
    \/ CheckVersion
    \/ NewProgram
    \/ MergeCreate
    \/ MergeNext
    \/ Internalize
    \/ Dce
    \/ AddModule
    \/ FindLibdevice
    \/ AddLibdevice
    \/ AddLibintrinsics
    \/ Verify
    \/ CompilerLog
    \/ Compile

Spec == Init /\ [][Next]_vars

-----------------------------------------------------------------------------
(* Properties of internalize_pass (checked under SpecInternalize) *)

\* the pass has run at least once
Passed == Len(history) >= 1

\* the module as it was before the latest pass
Before == history[Len(history)]

\* C1: every declaration (function or global) has the same linkage and
\* visibility after internalize_pass as before it, whether or not it is
\* listed in nvvm.annotations as a kernel or in cg_nvvm_used.
C1_DeclarationsUntouched ==
    Passed =>
        \A n \in DOMAIN module.vals :
            LLVMIsDeclaration(Before.vals[n]) =>
                /\ module.vals[n].linkage = Before.vals[n].linkage
                /\ module.vals[n].visibility = Before.vals[n].visibility

\* C2 as stated: after internalize_pass every symbol listed in cg_nvvm_used,
\* function or global, has external linkage.
C2_RetainedSymbolsExternal ==
    Passed =>
        \A n \in UsedFuncs(module) : module.vals[n].linkage = ExternalLinkage

\* C2 amended: after internalize_pass every function listed in cg_nvvm_used
\* has external linkage and default visibility, entry point or not, also when
\* the generic rule demoted it during the same pass; a defined global is
\* internal even when it is listed in cg_nvvm_used.
C2_RetainedFunctionsExternal ==
    Passed =>
        /\ \A n \in UsedFuncs(module) \cap FunctionIter(module) :
                /\ module.vals[n].linkage = ExternalLinkage
                /\ module.vals[n].visibility = VisDefault
        /\ \A n \in UsedFuncs(module) \cap GlobalIter(module) :
                ~LLVMIsDeclaration(module.vals[n]) =>
                    module.vals[n].linkage = InternalLinkage

\* a retained, defined non-kernel function that was internal and hidden before
\* the pass (so the generic rule applied to it) next to a retained defined global
C2_Witness ==
    /\ Passed
    /\ \E n \in UsedFuncs(module) \cap FunctionIter(module) :
            /\ ~LLVMIsDeclaration(Before.vals[n])
            /\ n \notin Kernels(module)
            /\ Before.vals[n].linkage = InternalLinkage
            /\ Before.vals[n].visibility = VisHidden
            /\ module.vals[n].linkage = ExternalLinkage
    /\ \E g \in UsedFuncs(module) \cap GlobalIter(module) :
            ~LLVMIsDeclaration(module.vals[g])

\* C3: after internalize_pass every defined function that is neither a kernel
\* nor listed in cg_nvvm_used, and every defined global, has internal linkage
\* and default visibility (so with both metadata lists empty every defined
\* function and global is internal).
C3_RestInternalized ==
    Passed =>
        /\ \A n \in FunctionIter(module) :
                (/\ ~LLVMIsDeclaration(Before.vals[n])
                 /\ n \notin Kernels(Before)
                 /\ n \notin UsedFuncs(Before)) =>
                    /\ module.vals[n].linkage = InternalLinkage
                    /\ module.vals[n].visibility = VisDefault
        /\ \A n \in GlobalIter(module) :
                ~LLVMIsDeclaration(Before.vals[n]) =>
                    /\ module.vals[n].linkage = InternalLinkage
                    /\ module.vals[n].visibility = VisDefault

\* both metadata lists empty, and the first pass internalized a defined
\* function and a defined global that were external and hidden
C3_Witness ==
    /\ Len(history) = 1
    /\ Before.annotations = {}
    /\ Before.used = {}
    /\ \E n \in FunctionIter(Before) :
            /\ Before.vals[n] = Value("func", FALSE, ExternalLinkage, VisHidden, {})
            /\ module.vals[n].linkage = InternalLinkage
    /\ \E g \in GlobalIter(Before) :
            /\ Before.vals[g] = Value("global", FALSE, ExternalLinkage, VisHidden, {})
            /\ module.vals[g].linkage = InternalLinkage

\* C4: a function in the entry-point set that had external linkage before
\* internalize_pass has it afterwards, and no entry point is internal after
\* the pass unless it was internal before it.
C4_KernelsStayExternal ==
    Passed =>
        \A n \in Kernels(Before) \cap FunctionIter(Before) :
            /\ Before.vals[n].linkage = ExternalLinkage =>
                    module.vals[n].linkage = ExternalLinkage
            /\ module.vals[n].linkage = InternalLinkage =>
                    Before.vals[n].linkage = InternalLinkage

\* a defined, external kernel that is not retained went through the pass next
\* to a defined non-kernel function that the pass demoted
C4_Witness ==
    /\ Passed
    /\ \E n \in Kernels(Before) \cap FunctionIter(Before) :
            /\ ~LLVMIsDeclaration(Before.vals[n])
            /\ n \notin UsedFuncs(Before)
            /\ Before.vals[n].linkage = ExternalLinkage
            /\ module.vals[n].linkage = ExternalLinkage
    /\ \E o \in FunctionIter(Before) \ Kernels(Before) :
            /\ Before.vals[o].linkage = ExternalLinkage
            /\ module.vals[o].linkage = InternalLinkage

\* C5: a second internalize_pass changes nothing: the module after two passes
\* is the module after one.
C5_Idempotent ==
    Len(history) >= 2 => module = history[Len(history)]

\* two passes ran and the first one changed the linkage of a function and of
\* a global
C5_Witness ==
    /\ Len(history) >= 2
    /\ \E n \in FunctionIter(module), g \in GlobalIter(module) :
            /\ history[1].vals[n].linkage # history[2].vals[n].linkage
            /\ history[1].vals[g].linkage # history[2].vals[g].linkage
            /\ module = history[2]

-----------------------------------------------------------------------------
(* Properties of codegen_bitcode_modules (checked under Spec) *)

\* the steps of the given kind executed so far
StepsOf(op) == {i \in 1..Len(trace) : trace[i].op = op}

\* the last step executed
LastStep == trace[Len(trace)]

\* the invocation ended by terminating the process (sess.fatal or a panic)
Terminated == outcome.kind \in {"fatal", "panic"}

\* (major, minor) is below 1.6
Below16(v) == v[1] < 1 \/ (v[1] = 1 /\ v[2] < 6)

\* C6: when ir_version() reports a version below 1.6 the invocation is over
\* (terminated by sess.fatal) right after the version check: no NvvmProgram
\* was created, no buffer was parsed and no module was created or merged.
C6_OldVersionAbortsFirst ==
    (Len(version) = 2 /\ Below16(version)) =>
        /\ pc = "done"
        /\ outcome.kind = "fatal"
        /\ trace = <<Step("version_check", FALSE)>>
        /\ progs = 0
        /\ prog = <<>>
        /\ module = NoModule
        /\ next_module = 1

\* version 1.5 was reported to an invocation that was given buffers
C6_Witness ==
    /\ version = <<1, 5>>
    /\ modules # <<>>
    /\ pc = "done"
    /\ outcome.kind = "fatal"

\* the verifier rejected the program
VerifyRejected == \E i \in StepsOf("verify") : ~trace[i].ok

\* the panic message that carries the log text
MalformedPanic(log) ==
    Panic(<<"Malformed NVVM IR program rejected by libnvvm, dumping verifier log:",
            log,
            "If you plan to submit a bug report please re-run the codegen">>)

\* C7 as stated: when the verifier rejects the program the invocation ends in
\* process termination carrying the tool's log (empty text if it supplies
\* none), never in a returned value, and compile is never invoked.
C7_RejectionCarriesLog ==
    VerifyRejected =>
        /\ StepsOf("compile") = {}
        /\ pc = "done" =>
            \E res \in CompilerLogs :
                /\ res.ok
                /\ outcome = MalformedPanic(IF res.log.some THEN res.log.val ELSE "")

\* C7 amended: when the verifier rejects the program the invocation ends in
\* process termination (a panic), never in a returned error value or
\* artifact, and compile is never invoked; the panic carries the tool's log
\* (empty text if the tool supplies none) when compiler_log() returns Ok, and
\* is the panic of unwrap() when compiler_log() itself returns Err.
C7_RejectionTerminates ==
    VerifyRejected =>
        /\ StepsOf("compile") = {}
        /\ pc \in {"compiler_log", "done"}
        /\ pc = "done" =>
            /\ outcome.kind = "panic"
            /\ LastStep.op = "compiler_log"
            /\ LastStep.ok =>
                outcome = MalformedPanic(IF LastStep.log.some THEN LastStep.log.val ELSE "")

\* the verifier rejected the program, the tool had no log, and the invocation
\* ended in the panic with the empty log text
C7_Witness ==
    /\ VerifyRejected
    /\ pc = "done"
    /\ LastStep.op = "compiler_log"
    /\ LastStep.ok
    /\ ~LastStep.log.some
    /\ outcome = MalformedPanic("")

\* find_libdevice() returned None
LibdeviceAbsent == \E i \in StepsOf("find_libdevice") : ~trace[i].ok

\* C8: when find_libdevice yields no file the invocation ends in process
\* termination (sess.fatal): no error value and no artifact is returned, and
\* nothing runs after it.
C8_MissingLibdeviceTerminates ==
    LibdeviceAbsent =>
        /\ pc = "done"
        /\ outcome.kind = "fatal"
        /\ LastStep = Step("find_libdevice", FALSE)
        /\ Len(prog) = 1

\* the directory lists a .bc file that cannot be read, after an entry that
\* failed to list, and the invocation ended in sess.fatal
C8_Witness ==
    /\ LibdeviceAbsent
    /\ fs.cuda_root
    /\ fs.read_dir.some
    /\ fs.read_dir.val = <<DirEntry(FALSE, "", "", FALSE),
                           DirEntry(TRUE, "libdevice.10", "bc", FALSE)>>
    /\ outcome.kind = "fatal"

\* prog.add_module rejected the buffer
ModuleRejected == \E i \in StepsOf("add_module") : ~trace[i].ok

\* C9: when add_module rejects the buffer, codegen_bitcode_modules returns
\* Err(CodegenErr::Nvvm) instead of terminating; after the rejection no
\* library is added and neither verify nor compile is invoked.
C9_RejectedModuleReturnsErr ==
    ModuleRejected =>
        /\ pc = "done"
        /\ outcome = Err("Nvvm")
        /\ LastStep = Step("add_module", FALSE)
        /\ prog = <<>>
        /\ StepsOf("verify") = {}
        /\ StepsOf("compile") = {}

\* add_module rejected the serialized merge of two units
C9_Witness ==
    /\ ModuleRejected
    /\ modules = <<Bitcode(UnitA), Bitcode(UnitB)>>
    /\ DOMAIN module.vals # {}
    /\ outcome = Err("Nvvm")

\* the step the invocation ended with failed
EndedInFailure == pc = "done" /\ (LastStep.op = "compiler_log" \/ ~LastStep.ok)

\* C10 as stated: an error value is returned exactly when NvvmProgram::new or
\* add_module fails; every other failure terminates the process.
C10_ErrOnlyForNewAndAddModule ==
    pc = "done" =>
        /\ outcome.kind = "Err" <=>
            (EndedInFailure /\ LastStep.op \in {"NvvmProgram::new", "add_module"})
        /\ Terminated <=>
            (EndedInFailure /\ LastStep.op \notin {"NvvmProgram::new", "add_module"})

\* the operations whose failure the function returns with `?`
ReturningOps ==
    {"NvvmProgram::new", "add_module", "add_lazy_module(libdevice)",
     "add_lazy_module(libintrinsics)"}

\* C10 amended: an error value is returned exactly when NvvmProgram::new,
\* add_module or one of the two add_lazy_module calls fails; every other
\* failure (version too old, bitcode parse failure, libdevice missing,
\* verification rejection, compile failure after verification) terminates the
\* process and is never reported through the returned error type.
C10_ErrOnlyForNewAndAdds ==
    pc = "done" =>
        /\ outcome.kind = "Err" <=> (EndedInFailure /\ LastStep.op \in ReturningOps)
        /\ Terminated <=> (EndedInFailure /\ LastStep.op \notin ReturningOps)
        /\ outcome.kind = "Ok" <=> ~EndedInFailure

\* both kinds of ending were met: add_lazy_module(libintrinsics) failed and
\* CodegenErr::Nvvm was returned (the libraries before it were added)
C10_Witness ==
    /\ pc = "done"
    /\ LastStep = Step("add_lazy_module(libintrinsics)", FALSE)
    /\ Len(prog) = 2
    /\ outcome = Err("Nvvm")

-----------------------------------------------------------------------------
(* Properties of merge_llvm_modules inside codegen_bitcode_modules (Spec) *)

\* LLVMLinkModules2 reported an error for some buffer
LinkFailed == \E i \in StepsOf("link") : ~trace[i].ok

\* C11: when two input units both hold a strong definition of one symbol the
\* merge surfaces a failure: the invocation ends there, without internalize,
\* DCE, verification or compilation of a module with one definition chosen.
C11_DuplicateDefinitionFails ==
    LinkFailed =>
        /\ pc = "done"
        /\ outcome.kind \in {"Err", "fatal", "panic"}
        /\ StepsOf("internalize_pass") = {}
        /\ StepsOf("dce_pass") = {}
        /\ StepsOf("compile") = {}

\* a buffer did not parse
ParseFailed == \E i \in StepsOf("parse") : ~trace[i].ok

\* C12: when a buffer is not valid bitcode the merge ends the process with the
\* panic "Failed to parse module bitcode" instead of returning an error value,
\* and no buffer after the invalid one is parsed or linked.
C12_InvalidBitcodePanics ==
    ParseFailed =>
        /\ pc = "done"
        /\ outcome = Panic("Failed to parse module bitcode")
        /\ LastStep = Step("parse", FALSE)
        /\ ~modules[next_module].bitcode
        /\ \A i \in 1..(next_module - 1) : modules[i].bitcode
        /\ Cardinality(StepsOf("parse")) = next_module
        /\ Cardinality(StepsOf("link")) = next_module - 1

\* the first buffer is not bitcode, a valid buffer follows it and was never
\* parsed
C12_Witness ==
    /\ ParseFailed
    /\ Len(modules) = 2
    /\ modules[1] = Garbage
    /\ modules[2] = Bitcode(UnitA)
    /\ Cardinality(StepsOf("parse")) = 1
    /\ outcome.kind = "panic"

-----------------------------------------------------------------------------
(* Properties of dce_pass (SpecDce) *)

\* an externally-visible root: a definition whose linkage is not internal
IsRoot(m, n) == ~m.vals[n].decl /\ m.vals[n].linkage # InternalLinkage

\* n is at the end of a chain of references that starts at a root
ReachableFromRoot(m, n) ==
    \E p \in SeqsUpTo(DOMAIN m.vals, Cardinality(DOMAIN m.vals)) :
        /\ Len(p) >= 1
        /\ IsRoot(m, p[1])
        /\ p[Len(p)] = n
        /\ \A i \in 1..(Len(p) - 1) : p[i + 1] \in m.vals[p[i]].refs

\* C13: dce_pass never removes a function or global that a chain of calls or
\* references reaches from an externally-visible root of the module it is
\* given; what it keeps it keeps as it was.
C13_ReachableKept ==
    (pc = "dce" /\ Passed) =>
        \A n \in DOMAIN Before.vals :
            ReachableFromRoot(Before, n) =>
                /\ n \in DOMAIN module.vals
                /\ module.vals[n] = Before.vals[n]

\* an internalized module: the kernel calls the internal helper, which stays,
\* and the internal table nothing reaches is removed
C13_Witness ==
    /\ pc = "dce"
    /\ Len(history) = 1
    /\ internalize_pass(Before) = Before
    /\ IsRoot(Before, "kernel_main")
    /\ "helper" \in Before.vals["kernel_main"].refs
    /\ Before.vals["helper"].linkage = InternalLinkage
    /\ ~Before.vals["helper"].decl
    /\ "helper" \in DOMAIN module.vals
    /\ "table" \notin DOMAIN module.vals

\* C14: dce_pass is idempotent: a second run leaves the module of the first
\* run as it is, with the same functions and globals and the same linkage and
\* visibility on each.
C14_DceIdempotent ==
    (pc = "dce" /\ Len(history) >= 2) => module = history[Len(history)]

\* two runs, the first of which removed a chain of two dead internal values
C14_Witness ==
    /\ pc = "dce"
    /\ Len(history) = 2
    /\ DOMAIN history[1].vals = PassFuncs \cup PassGlobals
    /\ DOMAIN history[2].vals = {"kernel_main"}
    /\ "table" \in history[1].vals["helper"].refs
    /\ DOMAIN module.vals = {"kernel_main"}

-----------------------------------------------------------------------------
(* The two-unit scenario through merge, internalize_pass and dce_pass (Spec) *)

\* unit a defines the entry point kernel_main, which calls helper, declared
\* but not defined in a
DefinesEntryPoint(a) ==
    /\ {"kernel_main", "helper"} \subseteq DOMAIN a.vals
    /\ ~a.vals["kernel_main"].decl
    /\ <<"kernel_main", "kernel", 1>> \in a.annotations
    /\ "helper" \in a.vals["kernel_main"].refs
    /\ a.vals["helper"].decl

\* unit b defines helper with the given linkage, neither a kernel nor
\* retained, and an internal function `unused` that nothing in b refers to
DefinesHelper(b, linkage) ==
    /\ {"helper", "unused"} \subseteq DOMAIN b.vals
    /\ ~b.vals["helper"].decl
    /\ b.vals["helper"].linkage = linkage
    /\ <<"helper", "kernel", 1>> \notin b.annotations
    /\ <<"helper">> \notin b.used
    /\ ~b.vals["unused"].decl
    /\ b.vals["unused"].linkage = InternalLinkage
    /\ \A n \in DOMAIN b.vals : "unused" \notin b.vals[n].refs

\* the input is the two units of the scenario, in either order
Scenario(linkage) ==
    /\ Len(modules) = 2
    /\ \A i \in 1..2 : modules[i].bitcode
    /\ \E i, j \in 1..2 :
        /\ i # j
        /\ DefinesEntryPoint(modules[i].unit)
        /\ DefinesHelper(modules[j].unit, linkage)

\* merge, internalize_pass and dce_pass have run
AfterDce == StepsOf("dce_pass") # {}

\* what the scenario expects of the module after dce_pass
ScenarioOutcome ==
    /\ "kernel_main" \in DOMAIN module.vals
    /\ module.vals["kernel_main"].linkage = ExternalLinkage
    /\ "helper" \in DOMAIN module.vals
    /\ ~module.vals["helper"].decl
    /\ module.vals["helper"].linkage = InternalLinkage
    /\ "unused" \notin DOMAIN module.vals

\* C15 as stated: unit A defines kernel_main calling the declared helper,
\* unit B defines helper with internal linkage and an unused internal
\* function; after merge, internalize and DCE kernel_main is external, helper
\* is present with internal linkage and the unused function is absent.
C15_InternalHelperScenario ==
    (Scenario(InternalLinkage) /\ AfterDce) => ScenarioOutcome

\* C15 (amended): the same scenario with helper defined in unit B with
\* external linkage: after merge, internalize and DCE kernel_main is external,
\* helper is present with internal linkage and the unused function is absent.
C15_ExternalHelperScenario ==
    (Scenario(ExternalLinkage) /\ AfterDce) => ScenarioOutcome

\* the scenario has run through dce_pass; what helper refers to is kept too
C15_Witness ==
    /\ Scenario(ExternalLinkage)
    /\ AfterDce
    /\ module.vals["helper"].linkage = InternalLinkage
    /\ "table" \in DOMAIN module.vals

-----------------------------------------------------------------------------
(* The entry points of the merged module (Spec) *)

\* merge_llvm_modules has returned and internalize_pass has not yet run
Merged == pc = "internalize_pass"

\* C16: when the N units hold no duplicate strong symbols, the entry-point
\* set internalize_pass reads from nvvm.annotations of the merged module is
\* the union of the units' entry-point sets, for every N >= 0 and every order
\* of the units.
C16_EntryPointsAreUnion ==
    (Merged /\ ~LinkFailed) =>
        Kernels(module) = UNION {Kernels(modules[i].unit) : i \in 1..Len(modules)}

\* two units with different entry points were merged
C16_Witness ==
    /\ Merged
    /\ ~LinkFailed
    /\ Len(modules) = 2
    /\ Kernels(modules[1].unit) = {"helper"}
    /\ Kernels(modules[2].unit) = {"kernel_main"}
    /\ Kernels(module) = {"kernel_main", "helper"}

-----------------------------------------------------------------------------
(* The order of the steps of codegen_bitcode_modules (Spec) *)

\* the operations of the trace, in order
OpsOf(t) == [i \in 1..Len(t) |-> t[i].op]

\* parse and link, once per buffer
MergeOps(n) == [i \in 1..(2 * n) |-> IF i % 2 = 1 THEN "parse" ELSE "link"]

\* the steps of an invocation that returns the artifact
ArtifactOps ==
    <<"version_check", "NvvmProgram::new", "create_module">>
    \o MergeOps(Len(modules))
    \o <<"internalize_pass", "dce_pass", "add_module", "find_libdevice",
         "add_lazy_module(libdevice)", "add_lazy_module(libintrinsics)",
         "verify", "compile">>

\* C17: an invocation that returns an artifact has executed exactly: the merge
\* of all the buffers, internalization, DCE, the addition of the serialized
\* module as the primary module "merged", of the filesystem libdevice as a
\* lazy module, of the embedded library as a lazy module, a successful
\* verification, and the compile with the caller's options, in this order;
\* in no invocation does DCE run before internalization or the compile before
\* a successful verification.
C17_StepOrder ==
    /\ outcome.kind = "Ok" =>
        /\ OpsOf(trace) = ArtifactOps
        /\ \A i \in 1..Len(trace) : trace[i].op # "link" => trace[i].ok
        /\ next_module = Len(modules) + 1
        /\ prog = <<[name |-> "merged", data |-> module, lazy |-> FALSE],
                    [name |-> "libdevice", data |-> libdevice.val, lazy |-> TRUE],
                    [name |-> "libintrinsics", data |-> LIBINTRINSICS, lazy |-> TRUE]>>
        /\ module = dce_pass(internalize_pass(history[1]))
        /\ LastStep.opts = Opts
        /\ outcome = Ok(Ptx)
    /\ \A i \in StepsOf("dce_pass") :
        \E j \in StepsOf("internalize_pass") : j < i
    /\ \A i \in StepsOf("compile") :
        \E j \in StepsOf("verify") : j < i /\ trace[j].ok

\* an artifact was returned for two units
C17_Witness ==
    /\ outcome.kind = "Ok"
    /\ Len(modules) = 2
    /\ ~LinkFailed
    /\ Len(trace) = 15

-----------------------------------------------------------------------------
(* Failure, the version precondition and the error values (Spec) *)

\* the operations of the external compiler's program
ProgramOps ==
    {"NvvmProgram::new", "add_module", "add_lazy_module(libdevice)",
     "add_lazy_module(libintrinsics)", "verify", "compile"}

\* step i failed and a later step of the pipeline was executed; fetching the
\* verifier log is part of reporting the failed verification
ContinuedAfter(i) ==
    /\ ~trace[i].ok
    /\ i < Len(trace)
    /\ ~(trace[i].op = "verify" /\ i + 1 = Len(trace)
            /\ trace[i + 1].op = "compiler_log")

\* C18: no retry and no continuation after failure: each operation of the
\* external compiler is invoked at most once in an invocation, one program
\* handle is created (none when the invocation fails before creating it), and
\* once any step fails, by a returned error or by termination, no later step
\* of the pipeline is executed.
C18_NoContinuationAfterFailure ==
    /\ \A op \in ProgramOps : Cardinality(StepsOf(op)) <= 1
    /\ progs = Cardinality({i \in StepsOf("NvvmProgram::new") : trace[i].ok})
    /\ \A i \in 1..Len(trace) : ~ContinuedAfter(i)

\* the version check rejected the reported version
VersionRejected ==
    /\ trace[1] = Step("version_check", FALSE)
    /\ outcome.kind = "fatal"

\* the version check passed; what follows it is the program creation
VersionPassed ==
    /\ trace[1] = Step("version_check", TRUE)
    /\ Len(trace) >= 2 => trace[2].op = "NvvmProgram::new"
    /\ Len(trace) = 1 => pc = "NvvmProgram::new"

\* C19: the version precondition rejects the reported (major, minor) if and
\* only if it is below 1.6 in major-then-minor order; every version at or
\* above 1.6, 2.0 included, passes and proceeds to the program creation.
C19_RejectsIffBelow16 ==
    version # NoVersion =>
        /\ VersionRejected <=> Below16(version)
        /\ VersionPassed <=> ~Below16(version)

\* a filesystem failure met while locating or reading libdevice: no toolkit
\* root, a directory that cannot be listed, or a .bc file (the first one
\* listed) that cannot be read
FsFailure(f) ==
    \/ ~f.cuda_root
    \/ ~f.read_dir.some
    \/ \E i \in DOMAIN f.read_dir.val :
        /\ f.read_dir.val[i].ok
        /\ f.read_dir.val[i].ext = "bc"
        /\ ~f.read_dir.val[i].readable
        /\ \A j \in 1..(i - 1) :
            ~(f.read_dir.val[j].ok /\ f.read_dir.val[j].ext = "bc")

\* C20: every error value codegen_bitcode_modules returns is CodegenErr::Nvvm;
\* CodegenErr::Io is returned on no path: a filesystem failure while locating
\* or reading libdevice becomes the absence of the library and ends in
\* termination.
C20_OnlyNvvmReturned ==
    /\ outcome.kind = "Err" => outcome.val = "Nvvm"
    /\ (StepsOf("find_libdevice") # {} /\ FsFailure(fs)) =>
        /\ libdevice = NoneOpt
        /\ outcome.kind = "fatal"
        /\ pc = "done"

\* the first .bc file listed cannot be read although a readable one follows
\* it: the invocation is terminated, no Io error comes back
C20_Witness ==
    /\ StepsOf("find_libdevice") # {}
    /\ fs.cuda_root
    /\ fs.read_dir.some
    /\ fs.read_dir.val = <<DirEntry(TRUE, "libdevice.10", "bc", FALSE),
                           DirEntry(TRUE, "libdevice.10", "bc", TRUE)>>
    /\ outcome.kind = "fatal"

====
